---- MODULE Spec2Model ----
(***************************************************************************)
(* A model of src/typescript.ts: the TypeScriptProject constructor (and    *)
(* its TypeScriptAppProject preset), the TypescriptConfig constructor and  *)
(* SampleCode.synthesize, over the project state they contribute to: the   *)
(* script registry, the two ignore pattern lists, the manifest, the JSON   *)
(* file emitters and, at synthesis, the output directory.                  *)
(*                                                                         *)
(* Optional values (`x?: T`) are sequences of length 0 or 1: <<>> is       *)
(* "unset/undefined" and <<v>> is "set to v".  Strings built by template   *)
(* literals are built with \o.  The start menu (this.start?.addEntry) is   *)
(* not part of the state: nothing else reads it.                           *)
(***************************************************************************)
EXTENDS Integers, Sequences, FiniteSets, TLC

VARIABLES
    pc,         \* "new" -> "constructed" -> "synthesized"
    cls,        \* the class that was instantiated
    options,    \* the options object handed to the TypeScriptProject constructor
    project,    \* the project object: fields and shared registries
    fs,         \* the output directory: existing directories and files
    synthCount  \* number of times synth() has run

vars == <<pc, cls, options, project, fs, synthCount>>

(***************************************************************************)
(* Bounds                                                                  *)
(***************************************************************************)
\* how many times the same project is synthesized
MaxSynth == 2

(***************************************************************************)
(* Optional values and the JavaScript operators applied to them            *)
(***************************************************************************)
Unset == <<>>
Some(v) == <<v>>
OptBool == {Unset, Some(TRUE), Some(FALSE)}

\* a ?? b
Coalesce(a, b) == IF a = Unset THEN b ELSE a[1]
\* truthiness of an optional boolean: undefined and false are falsy
Truthy(a) == a # Unset /\ a[1]
\* truthiness of an optional string: undefined and '' are falsy
TruthyStr(a) == a # Unset /\ a[1] # ""
\* every array, the empty one included, is truthy
TruthyArray(a) == TRUE

\* { ...a, ...b } on objects held as functions from key to value
Spread(a, b) ==
    [k \in DOMAIN a \cup DOMAIN b |-> IF k \in DOMAIN b THEN b[k] ELSE a[k]]

(***************************************************************************)
(* Paths                                                                   *)
(***************************************************************************)
\* An entrypoint is '' (the empty sequence) or <<directory, stem, extension>>.
NoEntrypoint == <<>>
DefaultEntrypoint == <<"lib", "index", ".js">>

Dirname(e) == e[1]
\* path.basename(e, ext): the extension is removed only when it is ext
Basename(e, ext) == IF e[3] = ext THEN e[2] ELSE e[2] \o e[3]
PathJoin(a, b) == a \o "/" \o b

\* A file name inside a directory is <<stem, extension>>.
EndsWith(name, suffix) == name[2] = suffix

(***************************************************************************)
(* Script registry, pattern lists, dependencies (NodeProject)              *)
(***************************************************************************)
AddScriptCommand(p, name, commands) ==
    [p EXCEPT !.scripts =
        [n \in DOMAIN p.scripts \cup {name} |->
            IF n = name
            THEN (IF n \in DOMAIN p.scripts THEN p.scripts[n] ELSE <<>>) \o commands
            ELSE p.scripts[n]]]

AddScript(p, name, commands) == AddScriptCommand(p, name, commands)
AddCompileCommand(p, commands) == AddScriptCommand(p, "compile", commands)
AddTestCommand(p, commands) == AddScriptCommand(p, "test", commands)

Pattern(kind, pattern) == [kind |-> kind, pattern |-> pattern]

GitignoreExclude(p, pattern) ==
    [p EXCEPT !.gitignore = Append(@, Pattern("exclude", pattern))]
GitignoreInclude(p, pattern) ==
    [p EXCEPT !.gitignore = Append(@, Pattern("include", pattern))]
\* project.npmignore?.exclude(...): nothing happens without a package-ignore list
NpmignoreExclude(p, pattern) ==
    IF p.hasNpmignore
    THEN [p EXCEPT !.npmignore = Append(@, Pattern("exclude", pattern))]
    ELSE p
NpmignoreInclude(p, pattern) ==
    IF p.hasNpmignore
    THEN [p EXCEPT !.npmignore = Append(@, Pattern("include", pattern))]
    ELSE p

AddDevDependencies(p, deps) ==
    [p EXCEPT !.devDependencies = Spread(@, deps)]

AddComponent(p, name) == [p EXCEPT !.components = Append(@, name)]

\* the project as the NodeProject constructor leaves it
NodeProject(o) ==
    [ entrypoint       |-> Coalesce(o.entrypoint, DefaultEntrypoint),
      packageManager   |-> "yarn",
      runScriptCommand |-> "yarn run",
      hasNpmignore     |-> Coalesce(o.npmignore, TRUE),
      scripts          |-> [n \in {} |-> <<>>],
      gitignore        |-> <<>>,
      npmignore        |-> <<>>,
      devDependencies  |-> [n \in {} |-> ""],
      manifestTypes    |-> Unset,
      files            |-> <<>>,
      components       |-> <<>>,
      srcdir           |-> "",
      libdir           |-> "",
      testdir          |-> "",
      tsconfig         |-> Unset,
      jestTypescript   |-> Unset,
      eslintTsconfigPath |-> Unset ]

(***************************************************************************)
(* TypescriptConfig                                                        *)
(***************************************************************************)
JsonFile(fileName, obj) == [fileName |-> fileName, obj |-> obj]

\* mutation: the caller's file name is not read
TypescriptConfigObject_FixedFileName(opts) ==
    [ fileName        |-> "tsconfig.json",
      include         |-> Coalesce(opts.include, <<"**/*.ts">>),
      exclude         |-> Coalesce(opts.exclude, <<"node_modules">>),
      compilerOptions |-> opts.compilerOptions ]

\* The object constructed by `new TypescriptConfig(project, opts)`.
TypescriptConfigObject(opts) ==
    [ fileName        |-> Coalesce(opts.fileName, "tsconfig.json"),
      include         |-> Coalesce(opts.include, <<"**/*.ts">>),
      exclude         |-> Coalesce(opts.exclude, <<"node_modules">>),
      compilerOptions |-> opts.compilerOptions ]

\* The project after `new TypescriptConfig(project, opts)`.
TypescriptConfig(p, opts) ==
    LET c == TypescriptConfigObject(opts)
        p1 == [p EXCEPT !.files = Append(@,
                  JsonFile(c.fileName,
                           [ compilerOptions |-> c.compilerOptions,
                             include         |-> c.include,
                             exclude         |-> c.exclude ]))]
    IN  NpmignoreExclude(p1, "/" \o c.fileName)

(***************************************************************************)
(* The TypeScriptProject constructor, in source order                      *)
(***************************************************************************)
RunScript(p, name) == p.runScriptCommand \o " " \o name

\* this.srcdir / libdir / testdir
ProjectDirs(p, o) ==
    [p EXCEPT !.srcdir  = Coalesce(o.srcdir, "src"),
              !.libdir  = Coalesce(o.libdir, "lib"),
              !.testdir = Coalesce(o.testdir, "test")]

CompileAndWatchScripts(p) ==
    AddScript(AddCompileCommand(p, <<"tsc">>), "watch", <<"tsc -w">>)

CompileBeforeTest(o) == Coalesce(o.compileBeforeTest, FALSE)

AddBuildCommand(p, commands) == AddScriptCommand(p, "build", commands)

\* mutation: the two arrangements are exchanged
BuildScript_Swapped(p, o) ==
    IF CompileBeforeTest(o)
    THEN AddBuildCommand(p, <<RunScript(p, "test"), RunScript(p, "compile")>>)
    ELSE AddBuildCommand(p, <<RunScript(p, "compile"), RunScript(p, "test")>>)

BuildScript(p, o) ==
    IF CompileBeforeTest(o)
    THEN AddBuildCommand(p, <<RunScript(p, "compile"), RunScript(p, "test")>>)
    ELSE AddBuildCommand(p, <<RunScript(p, "test"), RunScript(p, "compile")>>)

PackageCommands(p) ==
    << "rm -fr dist", "mkdir -p dist/js", p.packageManager \o " pack", "mv *.tgz dist/js/" >>

\* mutation: the build contribution is made although packaging is disabled
PackageScript_AlwaysInBuild(p, o) ==
    IF Coalesce(o.package, TRUE)
    THEN AddBuildCommand(AddScript(p, "package", PackageCommands(p)),
                         <<RunScript(p, "package")>>)
    ELSE AddBuildCommand(p, <<RunScript(p, "package")>>)

PackageScript(p, o) ==
    IF Coalesce(o.package, TRUE)
    THEN AddBuildCommand(AddScript(p, "package", PackageCommands(p)),
                         <<RunScript(p, "package")>>)
    ELSE p

EntrypointTypes(p) ==
    PathJoin(Dirname(p.entrypoint), Basename(p.entrypoint, ".js")) \o ".d.ts"

ManifestTypes(p, o) ==
    IF TruthyStr(o.entrypointTypes) \/ p.entrypoint # NoEntrypoint
    THEN [p EXCEPT !.manifestTypes =
            Some(IF o.entrypointTypes # Unset THEN o.entrypointTypes[1]
                 ELSE EntrypointTypes(p))]
    ELSE p

\* const compilerOptions = { ... }; every value is held as its JSON text
DefaultCompilerOptions ==
    [ alwaysStrict                 |-> "true",
      declaration                  |-> "true",
      experimentalDecorators       |-> "true",
      inlineSourceMap              |-> "true",
      inlineSources                |-> "true",
      lib                          |-> "[\"es2018\"]",
      module                       |-> "\"CommonJS\"",
      noEmitOnError                |-> "false",
      noFallthroughCasesInSwitch   |-> "true",
      noImplicitAny                |-> "true",
      noImplicitReturns            |-> "true",
      noImplicitThis               |-> "true",
      noUnusedLocals               |-> "true",
      noUnusedParameters           |-> "true",
      resolveJsonModule            |-> "true",
      strict                       |-> "true",
      strictNullChecks             |-> "true",
      strictPropertyInitialization |-> "true",
      stripInternal                |-> "true",
      target                       |-> "\"ES2018\"" ]

JsonString(s) == "\"" \o s \o "\""

\* { rootDir: this.srcdir, outDir: this.libdir, ...compilerOptions }
ComputedCompilerOptions(p) ==
    Spread([rootDir |-> JsonString(p.srcdir), outDir |-> JsonString(p.libdir)],
           DefaultCompilerOptions)

\* { include, exclude, compilerOptions, ...options.tsconfig }: the caller's
\* object replaces, property by property, the one computed here
StandardTsconfigOptions(p, o) ==
    LET base == [ fileName        |-> Unset,
                  include         |-> Some(<<p.srcdir \o "/**/*.ts">>),
                  exclude         |-> Some(<<"node_modules", p.libdir>>),
                  compilerOptions |-> ComputedCompilerOptions(p) ]
    IN  IF o.tsconfig = Unset THEN base
        ELSE LET t == o.tsconfig[1] IN
             [ fileName        |-> t.fileName,
               include         |-> IF t.include # Unset THEN t.include ELSE base.include,
               exclude         |-> IF t.exclude # Unset THEN t.exclude ELSE base.exclude,
               compilerOptions |-> t.compilerOptions ]

\* mutation: the disable flag is not consulted
StandardTsconfig_IgnoresDisable(p, o) ==
    LET opts == StandardTsconfigOptions(p, o)
    IN  [TypescriptConfig(p, opts) EXCEPT !.tsconfig = Some(TypescriptConfigObject(opts))]

StandardTsconfig(p, o) ==
    IF ~Truthy(o.disableTsconfig)
    THEN LET opts == StandardTsconfigOptions(p, o)
         IN  [TypescriptConfig(p, opts) EXCEPT
                 !.tsconfig = Some(TypescriptConfigObject(opts))]
    ELSE p

\* mutation: include and exclude of the output directory are exchanged
IgnorePatterns_LibTracked(p) ==
    LET p1 == NpmignoreExclude(GitignoreInclude(p, "/" \o p.libdir), "/" \o p.libdir)
        p2 == NpmignoreExclude(GitignoreInclude(p1, "/" \o p.srcdir), "/" \o p.srcdir)
        p3 == NpmignoreInclude(p2, "/" \o p.libdir \o "/**/*.js")
        p4 == NpmignoreInclude(p3, "/" \o p.libdir \o "/**/*.d.ts")
        p5 == NpmignoreExclude(GitignoreExclude(p4, "/dist"), "dist")
        p6 == NpmignoreExclude(p5, "/tsconfig.json")
        p7 == NpmignoreExclude(p6, "/.github")
        p8 == NpmignoreExclude(p7, "/.vscode")
    IN  NpmignoreExclude(p8, "/.projenrc.js")

IgnorePatterns(p) ==
    LET p1 == NpmignoreInclude(GitignoreExclude(p, "/" \o p.libdir), "/" \o p.libdir)
        p2 == NpmignoreExclude(GitignoreInclude(p1, "/" \o p.srcdir), "/" \o p.srcdir)
        p3 == NpmignoreInclude(p2, "/" \o p.libdir \o "/**/*.js")
        p4 == NpmignoreInclude(p3, "/" \o p.libdir \o "/**/*.d.ts")
        p5 == NpmignoreExclude(GitignoreExclude(p4, "/dist"), "dist")
        p6 == NpmignoreExclude(p5, "/tsconfig.json")
        p7 == NpmignoreExclude(p6, "/.github")
        p8 == NpmignoreExclude(p7, "/.vscode")
    IN  NpmignoreExclude(p8, "/.projenrc.js")

\* mutation: the test configuration is built like the standard one
JestTsconfigOptions_LikeStandard(p, o) == StandardTsconfigOptions(p, o)

\* the options of the TypescriptConfig created for jest
JestTsconfigOptions(p, o) ==
    [ fileName        |-> Some("tsconfig.jest.json"),
      include         |-> Some(<<p.srcdir \o "/**/*.ts", p.testdir \o "/**/*.ts">>),
      exclude         |-> Some(<<"node_modules">>),
      compilerOptions |-> DefaultCompilerOptions ]

\* mutation: the cleanup is registered whatever the build order is
PreTestCleanup_Always(p, o) == AddTestCommand(p, <<"rm -fr " \o p.libdir \o "/">>)

PreTestCleanup(p, o) ==
    IF ~CompileBeforeTest(o)
    THEN AddTestCommand(p, <<"rm -fr " \o p.libdir \o "/">>)
    ELSE p

\* if (options.jest ?? true) { ... }
JestSetup(p, o) ==
    IF Coalesce(o.jest, TRUE)
    THEN LET opts == JestTsconfigOptions(p, o)
             p1 == [TypescriptConfig(p, opts) EXCEPT
                       !.jestTypescript = Some(TypescriptConfigObject(opts))]
             p2 == AddComponent(PreTestCleanup(p1, o), "Jest")
         IN  NpmignoreExclude(GitignoreInclude(p2, "/" \o p.testdir), "/" \o p.testdir)
    ELSE p

\* let eslintTsConfig = 'tsconfig.json', reassigned to the jest
\* configuration's file name in the jest branch
EslintTsConfig(p) ==
    IF p.jestTypescript # Unset THEN p.jestTypescript[1].fileName ELSE "tsconfig.json"

EslintSetup(p, o) ==
    IF Coalesce(o.eslint, TRUE)
    THEN AddComponent([p EXCEPT !.eslintTsconfigPath = Some("./" \o EslintTsConfig(p))],
                      "Eslint")
    ELSE p

TypescriptDevDependencies(p, o) ==
    AddDevDependencies(p, ("typescript" :> "^3.9.5") @@ ("@types/node" :> "^10.17.0"))

SampleCodeSetup(p, o) ==
    IF Coalesce(o.sampleCode, TRUE) THEN AddComponent(p, "SampleCode") ELSE p

DocgenSetup(p, o) ==
    IF Truthy(o.docgen) THEN AddComponent(p, "TypedocDocgen") ELSE p

\* new TypeScriptProject(o)
TypeScriptProject(o) ==
    LET p0  == ProjectDirs(NodeProject(o), o)
        p1  == CompileAndWatchScripts(p0)
        p2  == BuildScript(p1, o)
        p3  == PackageScript(p2, o)
        p4  == ManifestTypes(p3, o)
        p5  == StandardTsconfig(p4, o)
        p6  == IgnorePatterns(p5)
        p7  == JestSetup(p6, o)
        p8  == EslintSetup(p7, o)
        p9  == TypescriptDevDependencies(p8, o)
        p10 == SampleCodeSetup(p9, o)
    IN  DocgenSetup(p10, o)

\* super({ ..., entrypoint: '', package: false, ...options })
TypeScriptAppProjectOptions(o) ==
    [o EXCEPT !.entrypoint = IF @ = Unset THEN Some(NoEntrypoint) ELSE @,
              !.package    = IF @ = Unset THEN Some(FALSE) ELSE @]

(***************************************************************************)
(* Synthesis                                                               *)
(***************************************************************************)
\* The output directory: the set of existing directories, and the files,
\* a function from <<directory, file name>> to content.  "." is the output
\* directory itself.  A content is text lines or a JSON object.
TextContent(lines) == [lines |-> lines, obj |-> Unset]
JsonContent(obj) == [lines |-> <<>>, obj |-> Some(obj)]

PathExists(f, dir) == dir \in f.dirs
Readdir(f, dir) == {path[2] : path \in {q \in DOMAIN f.files : q[1] = dir}}
Mkdirp(f, dir) == [f EXCEPT !.dirs = @ \cup {dir}]
WriteFile(f, dir, name, content) ==
    [f EXCEPT !.files =
        [q \in DOMAIN f.files \cup {<<dir, name>>} |->
            IF q = <<dir, name>> THEN content ELSE f.files[q]]]

\* a JSON file emitter in replace mode writes its object over whatever is there
SynthesizeJsonFile(f, file) ==
    WriteFile(f, ".", <<file.fileName, "">>, JsonContent(file.obj))

RECURSIVE SynthesizeFiles(_, _)
SynthesizeFiles(f, files) ==
    IF files = <<>> THEN f
    ELSE SynthesizeFiles(SynthesizeJsonFile(f, Head(files)), Tail(files))

SrcCode ==
    << "export class Hello {", "  public sayHello() {",
       "    return 'hello, world!'", "  }", "}" >>
TestCode ==
    << "import { Hello } from '../src'", "", "test('hello', () => {",
       "  expect(new Hello().sayHello()).toBe('hello, world!');", "});" >>

\* fs.pathExistsSync(dir) && fs.readdirSync(dir).filter(x => x.endsWith('.ts')):
\* the right operand is an array, and an array is truthy
SampleGuard(f, dir) ==
    PathExists(f, dir) /\ TruthyArray({x \in Readdir(f, dir) : EndsWith(x, ".ts")})

\* mutation: the early return follows the first write instead of guarding it
SampleCodeSynthesize_ReturnAfterWrite(f, p) ==
    IF ~SampleGuard(f, p.srcdir)
    THEN WriteFile(Mkdirp(f, p.srcdir), p.srcdir, <<"index", ".ts">>, TextContent(SrcCode))
    ELSE IF SampleGuard(f, p.testdir) THEN f
         ELSE WriteFile(Mkdirp(f, p.testdir), p.testdir, <<"hello.test", ".ts">>,
                        TextContent(TestCode))

\* SampleCode.synthesize(outdir)
SampleCodeSynthesize(f, p) ==
    IF SampleGuard(f, p.srcdir) THEN f
    ELSE LET f1 == WriteFile(Mkdirp(f, p.srcdir), p.srcdir, <<"index", ".ts">>,
                             TextContent(SrcCode))
         IN  IF SampleGuard(f1, p.testdir) THEN f1
             ELSE WriteFile(Mkdirp(f1, p.testdir), p.testdir, <<"hello.test", ".ts">>,
                            TextContent(TestCode))

HasComponent(p, name) == \E i \in 1..Len(p.components) : p.components[i] = name

\* project.synth(): every file emitter is rendered, then every component synthesizes
SynthesizeProject(f, p) ==
    LET f1 == SynthesizeFiles(f, p.files)
    IN  IF HasComponent(p, "SampleCode") THEN SampleCodeSynthesize(f1, p) ELSE f1

(***************************************************************************)
(* Inputs                                                                  *)
(***************************************************************************)
NoOptions ==
    [ jest |-> Unset, compileBeforeTest |-> Unset, package |-> Unset, eslint |-> Unset,
      docgen |-> Unset, disableTsconfig |-> Unset, sampleCode |-> Unset,
      srcdir |-> Unset, libdir |-> Unset, testdir |-> Unset, tsconfig |-> Unset,
      entrypoint |-> Unset, entrypointTypes |-> Unset, npmignore |-> Unset ]

\* compilerOptions a caller may pass in options.tsconfig
CallerCompilerOptions ==
    { [k \in {} |-> ""],
      [strict |-> "false"],
      [outDir |-> "\"build\"", esModuleInterop |-> "true"] }

CallerTsconfigs ==
    [ fileName        : {Unset, Some("tsconfig.jest.json"), Some("tsconfig.dev.json")},
      include         : {Unset},
      exclude         : {Unset},
      compilerOptions : CallerCompilerOptions ]
    \cup
    { [ fileName        |-> Unset,
        include         |-> Some(<<"**/*.ts">>),
        exclude         |-> Some(<<"node_modules", "cdk.out">>),
        compilerOptions |-> [strict |-> "false"] ] }

Classes == {"TypeScriptProject", "TypeScriptAppProject"}

\* the option objects of the construction specification
AllOptions ==
    [ jest              : OptBool,
      compileBeforeTest : OptBool,
      package           : OptBool,
      eslint            : {Unset, Some(FALSE)},
      docgen            : {Unset, Some(TRUE)},
      disableTsconfig   : {Unset, Some(TRUE)},
      sampleCode        : {Unset, Some(FALSE)},
      srcdir            : {Unset, Some("lib")},
      libdir            : {Unset, Some("dist")},
      testdir           : {Unset, Some("lib")},
      tsconfig          : {Unset} \cup {Some(t) : t \in CallerTsconfigs},
      entrypoint        : {Unset},
      entrypointTypes   : {Unset, Some("lib/main.d.ts")},
      npmignore         : {Unset, Some(FALSE)} ]

\* the option objects of the synthesis specification
SynthOptions ==
    [ jest              : {Unset, Some(FALSE)},
      compileBeforeTest : {Unset},
      package           : {Unset},
      eslint            : {Unset},
      docgen            : {Unset},
      disableTsconfig   : {Unset, Some(TRUE)},
      sampleCode        : OptBool,
      srcdir            : {Unset, Some("lib")},
      libdir            : {Unset},
      testdir           : {Unset, Some("src")},
      tsconfig          : {Unset,
                           Some([ fileName |-> Some("tsconfig.jest.json"), include |-> Unset,
                                  exclude |-> Unset,
                                  compilerOptions |-> [strict |-> "false"] ])},
      entrypoint        : {Unset},
      entrypointTypes   : {Unset},
      npmignore         : {Unset} ]

EmptyFs == [dirs |-> {"."}, files |-> [q \in {} |-> TextContent(<<>>)]]

\* what a directory can hold before the first synthesis
DirStates == {"missing", "empty", "ts", "other"}
UserFile(st) == IF st = "ts" THEN <<"main", ".ts">> ELSE <<"README", ".md">>

InitialFs(src, test, lib, old) ==
    LET st == [d \in {"src", "test", "lib"} |->
                  IF d = "src" THEN src ELSE IF d = "test" THEN test ELSE lib]
        held == {d \in DOMAIN st : st[d] \in {"ts", "other"}}
        paths == {<<d, UserFile(st[d])>> : d \in held}
                 \cup (IF old THEN {<<".", <<"tsconfig.json", "">>>>} ELSE {})
    IN  [ dirs  |-> {"."} \cup {d \in DOMAIN st : st[d] # "missing"},
          files |-> [q \in paths |-> TextContent(<<"user content">>)] ]

(***************************************************************************)
(* Actions                                                                 *)
(***************************************************************************)
EffectiveOptions(c, o) ==
    IF c = "TypeScriptAppProject" THEN TypeScriptAppProjectOptions(o) ELSE o

\* new TypeScriptProject(o) / new TypeScriptAppProject(o)
Construct(c, o) ==
    /\ pc = "new"
    /\ pc' = "constructed"
    /\ cls' = c
    /\ options' = EffectiveOptions(c, o)
    /\ project' = TypeScriptProject(EffectiveOptions(c, o))
    /\ UNCHANGED <<fs, synthCount>>

\* project.synth()
Synthesize ==
    /\ pc \in {"constructed", "synthesized"}
    /\ synthCount < MaxSynth
    /\ pc' = "synthesized"
    /\ fs' = SynthesizeProject(fs, project)
    /\ synthCount' = synthCount + 1
    /\ UNCHANGED <<cls, options, project>>

\* the guard is stated first so that a constructed project enumerates no options
ConstructAny == pc = "new" /\ \E c \in Classes, o \in AllOptions : Construct(c, o)
ConstructForSynth == pc = "new" /\ \E c \in Classes, o \in SynthOptions : Construct(c, o)

Init ==
    /\ pc = "new"
    /\ cls = "none"
    /\ options = NoOptions
    /\ project = NodeProject(NoOptions)
    /\ fs = EmptyFs
    /\ synthCount = 0

Next == ConstructAny

\* construction of every project the options describe
Spec == Init /\ [][Next]_vars

InitSynth ==
    /\ pc = "new"
    /\ cls = "none"
    /\ options = NoOptions
    /\ project = NodeProject(NoOptions)
    /\ \E src \in DirStates, test \in DirStates, lib \in {"missing", "ts"},
          old \in BOOLEAN : fs = InitialFs(src, test, lib, old)
    /\ synthCount = 0

NextSynth == ConstructForSynth \/ Synthesize

\* construction followed by repeated synthesis into an existing output directory
SpecSynth == InitSynth /\ [][NextSynth]_vars

(***************************************************************************)
(* Properties                                                              *)
(***************************************************************************)
Constructed == pc # "new"
JestEnabled == Coalesce(options.jest, TRUE)
PackageEnabled == Coalesce(options.package, TRUE)
CompileFirst == Coalesce(options.compileBeforeTest, FALSE)

Script(name) == IF name \in DOMAIN project.scripts THEN project.scripts[name] ELSE <<>>
InScript(name, command) == \E i \in 1..Len(Script(name)) : Script(name)[i] = command

RunTest == "yarn run test"
RunCompile == "yarn run compile"
RunPackage == "yarn run package"
TestThenCompile == IF CompileFirst THEN <<RunCompile, RunTest>> ELSE <<RunTest, RunCompile>>

\* C1 as stated: with jest enabled the build script is exactly [run test, run
\* compile] when compileBeforeTest is disabled or unset and exactly [run compile,
\* run test] when it is enabled, whatever the other options are.
C1_BuildIsExactlyTestAndCompile ==
    (Constructed /\ JestEnabled) => Script("build") = TestThenCompile

\* C1 as amended: with jest enabled the build script starts with the two
\* commands in the order compileBeforeTest selects; it is exactly these two when
\* packaging is disabled, and they are followed by `run package` alone when
\* packaging is enabled.
C1_BuildStartsWithTestAndCompile ==
    (Constructed /\ JestEnabled) =>
        /\ SubSeq(Script("build"), 1, 2) = TestThenCompile
        /\ ~PackageEnabled => Script("build") = TestThenCompile
        /\ PackageEnabled => Script("build") = TestThenCompile \o <<RunPackage>>

C1_Witness ==
    /\ Constructed /\ JestEnabled /\ CompileFirst /\ ~PackageEnabled
    /\ options.docgen = Some(TRUE) /\ options.disableTsconfig = Some(TRUE)
    /\ Script("build") = <<RunCompile, RunTest>>

CleanupCommand == "rm -fr " \o Coalesce(options.libdir, "lib") \o "/"

\* C2: the pre-test cleanup `rm -fr <libdir>/` is a test command if and only if
\* jest is enabled and compileBeforeTest is disabled or unset.
C2_CleanupIffJestAndTestFirst ==
    Constructed => (InScript("test", CleanupCommand) <=> (JestEnabled /\ ~CompileFirst))

C2_Witness ==
    /\ Constructed /\ options.jest = Unset /\ options.compileBeforeTest = Some(FALSE)
    /\ options.libdir = Some("dist")
    /\ Script("test") = <<"rm -fr dist/">>

FileNames == {project.files[i].fileName : i \in 1..Len(project.files)}

\* C3 as stated: with disableTsconfig = true no compiler-configuration file
\* emitter is registered at all and the manifest's types field is not set.
C3_NoConfigFilesAndNoTypes ==
    (Constructed /\ Truthy(options.disableTsconfig)) =>
        /\ project.files = <<>>
        /\ project.manifestTypes = Unset

\* C3 as amended: with disableTsconfig = true the standard configuration is not
\* constructed; the only emitter there can be is the test-scoped
\* tsconfig.jest.json, present exactly when jest is enabled; the types field
\* is set exactly when entrypointTypes is given or the entrypoint is not ''.
C3_NoStandardConfig ==
    (Constructed /\ Truthy(options.disableTsconfig)) =>
        /\ project.tsconfig = Unset
        /\ FileNames = (IF JestEnabled THEN {"tsconfig.jest.json"} ELSE {})
        /\ Len(project.files) = (IF JestEnabled THEN 1 ELSE 0)
        /\ project.manifestTypes # Unset <=>
              (TruthyStr(options.entrypointTypes) \/ project.entrypoint # NoEntrypoint)

C3_Witness ==
    /\ Constructed /\ Truthy(options.disableTsconfig) /\ JestEnabled
    /\ options.tsconfig # Unset
    /\ Len(project.files) = 1
    /\ project.manifestTypes = Some("lib/index.d.ts")

SrcDir == Coalesce(options.srcdir, "src")
LibDir == Coalesce(options.libdir, "lib")
TestDir == Coalesce(options.testdir, "test")

CallerFileName == IF options.tsconfig = Unset THEN Unset ELSE options.tsconfig[1].fileName
CallerOptions ==
    IF options.tsconfig = Unset THEN [k \in {} |-> ""]
    ELSE options.tsconfig[1].compilerOptions

\* the value the three layers give a key: the caller's, else the computed
\* rootDir/outDir, else the hard-coded default
LayeredValue(k) ==
    IF k \in DOMAIN CallerOptions THEN CallerOptions[k]
    ELSE IF k = "rootDir" THEN JsonString(SrcDir)
    ELSE IF k = "outDir" THEN JsonString(LibDir)
    ELSE DefaultCompilerOptions[k]

LayeredKeys == DOMAIN DefaultCompilerOptions \cup {"rootDir", "outDir"} \cup DOMAIN CallerOptions

\* C4: the compilerOptions of the standard configuration are the key-by-key
\* merge of the defaults, then rootDir/outDir, then the caller's compilerOptions;
\* a default key the caller did not mention is still present.
C4_CompilerOptionsAreLayered ==
    (Constructed /\ project.tsconfig # Unset) =>
        LET emitted == project.tsconfig[1].compilerOptions
        IN  /\ DOMAIN emitted = LayeredKeys
            /\ \A k \in LayeredKeys : k \in DOMAIN emitted => emitted[k] = LayeredValue(k)

BothConfigs == Constructed /\ project.tsconfig # Unset /\ project.jestTypescript # Unset

\* C5 as stated: when both the standard and the test-scoped configuration are
\* constructed they are two emitters with two distinct file names, whatever
\* options.tsconfig (its fileName included) the caller passes.
C5_TwoEmittersTwoNames ==
    BothConfigs =>
        /\ Len(project.files) = 2
        /\ project.files[1].fileName # project.files[2].fileName

\* C5 as amended: when both are constructed there are two emitters, the
\* standard one under the caller's fileName (default tsconfig.json) and the
\* test-scoped one under tsconfig.jest.json; the two names are distinct exactly
\* when the caller's fileName is not 'tsconfig.jest.json'.
C5_TwoEmittersNamesDistinctUnlessChosenEqual ==
    BothConfigs =>
        /\ Len(project.files) = 2
        /\ project.files[1].fileName = Coalesce(CallerFileName, "tsconfig.json")
        /\ project.files[1].fileName = project.tsconfig[1].fileName
        /\ project.files[2].fileName = "tsconfig.jest.json"
        /\ project.files[2].fileName = project.jestTypescript[1].fileName
        /\ project.files[1].fileName # project.files[2].fileName
              <=> CallerFileName # Some("tsconfig.jest.json")

C5_Witness ==
    /\ BothConfigs /\ CallerFileName = Some("tsconfig.dev.json")
    /\ FileNames = {"tsconfig.dev.json", "tsconfig.jest.json"}

\* the kind of the last entry of a pattern list for a literal pattern
Entries(list, pattern) == {i \in 1..Len(list) : list[i].pattern = pattern}
LastKind(list, pattern) ==
    IF Entries(list, pattern) = {} THEN "none"
    ELSE list[CHOOSE i \in Entries(list, pattern) : \A j \in Entries(list, pattern) : j <= i].kind

OutputIgnoredAndShipped ==
    /\ LastKind(project.gitignore, "/" \o LibDir) = "exclude"
    /\ project.hasNpmignore => LastKind(project.npmignore, "/" \o LibDir) = "include"

LaterPackageExcludes ==
    {"/tsconfig.json", "/.github", "/.vscode", "/.projenrc.js"}
        \cup (IF JestEnabled THEN {"/tsconfig.jest.json"} ELSE {})

C9_PackageIsLastBuildContribution ==
    Constructed =>
        LET build == Script("build") IN
        /\ build = TestThenCompile \o (IF PackageEnabled THEN <<RunPackage>> ELSE <<>>)
        /\ PackageEnabled =>
              /\ "package" \in DOMAIN project.scripts
              /\ build[Len(build)] = RunPackage
              /\ \A i \in 1..Len(build) :
                    build[i] \in {RunTest, RunCompile} => i < Len(build)
        /\ ~PackageEnabled =>
              /\ "package" \notin DOMAIN project.scripts
              /\ ~InScript("build", RunPackage)

C9_Witness ==
    /\ Constructed /\ cls = "TypeScriptAppProject" /\ options.package = Some(TRUE)
    /\ CompileFirst
    /\ Script("build") = <<RunCompile, RunTest, RunPackage>>
    /\ Len(Script("package")) = 4

JestConfigExpected ==
    [ fileName        |-> "tsconfig.jest.json",
      include         |-> <<SrcDir \o "/**/*.ts", TestDir \o "/**/*.ts">>,
      exclude         |-> <<"node_modules">>,
      compilerOptions |-> DefaultCompilerOptions ]

\* C10: the test-scoped configuration does not depend on the standard one: its
\* compilerOptions are the hard-coded defaults, without rootDir and outDir, its
\* include list is [srcdir/**/*.ts, testdir/**/*.ts], its exclude list is
\* [node_modules] and its file name is tsconfig.jest.json, for every
\* options.tsconfig and whether or not the standard configuration is disabled.
C10_JestConfigIndependent ==
    (Constructed /\ JestEnabled) =>
        /\ project.jestTypescript = Some(JestConfigExpected)
        /\ {"rootDir", "outDir"} \cap DOMAIN project.jestTypescript[1].compilerOptions = {}
        /\ \E i \in 1..Len(project.files) :
              project.files[i] =
                  JsonFile("tsconfig.jest.json",
                           [ compilerOptions |-> DefaultCompilerOptions,
                             include |-> JestConfigExpected.include,
                             exclude |-> JestConfigExpected.exclude ])

C10_Witness ==
    /\ Constructed /\ JestEnabled /\ project.tsconfig # Unset
    /\ "esModuleInterop" \in DOMAIN project.tsconfig[1].compilerOptions
    /\ SrcDir = "lib"
    /\ project.jestTypescript[1].include = <<"lib/**/*.ts", "test/**/*.ts">>

SampleCodeEnabled == Constructed /\ HasComponent(project, "SampleCode")
HasFile(f, dir, name) == <<dir, name>> \in DOMAIN f.files
HasTsFile(f, dir) == \E x \in Readdir(f, dir) : EndsWith(x, ".ts")
FilesIn(f, dir) == [q \in {r \in DOMAIN f.files : r[1] = dir} |-> f.files[q]]

\* C7: synthesizing the unmodified project again leaves every file with the
\* content the first synthesis gave it and creates no file or directory.
C7_SynthesisIdempotent == [][pc = "synthesized" => fs' = fs]_vars

C7_Witness ==
    /\ synthCount = 2 /\ SampleCodeEnabled
    /\ HasFile(fs, "src", <<"index", ".ts">>)
    /\ HasFile(fs, "test", <<"hello.test", ".ts">>)
    /\ HasFile(fs, ".", <<"tsconfig.json", "">>)
    /\ fs.files[<<".", <<"tsconfig.json", "">>>>].obj # Unset

\* what C8 says one synthesis does with one directory and its sample file
OneTimeSample(before, after, dir, name) ==
    IF PathExists(before, dir) /\ HasTsFile(before, dir)
    THEN FilesIn(after, dir) = FilesIn(before, dir)
    ELSE HasFile(after, dir, name)

\* C8: with sampleCode enabled a synthesis treats the source and the test
\* directory independently: a directory that is missing or holds no .ts file
\* holds its sample file afterwards (src/index.ts, test/hello.test.ts), and
\* nothing is written into a directory that already holds .ts files.
C8_SampleWhereNoTsFiles ==
    [][(SampleCodeEnabled /\ synthCount' = synthCount + 1) =>
          /\ OneTimeSample(fs, fs', project.srcdir, <<"index", ".ts">>)
          /\ OneTimeSample(fs, fs', project.testdir, <<"hello.test", ".ts">>)]_vars

EslintEnabled == Constructed /\ HasComponent(project, "Eslint")

\* C11: whenever eslint is enabled the tsconfigPath handed to it names a
\* compiler-configuration file this project emits: ./tsconfig.jest.json when
\* jest is enabled and ./tsconfig.json otherwise, and in the latter case a
\* TypescriptConfig with file name tsconfig.json has been constructed, for
\* every disableTsconfig and every options.tsconfig.fileName.
C11_EslintConfigIsEmitted ==
    EslintEnabled =>
        /\ project.eslintTsconfigPath =
              Some(IF JestEnabled THEN "./tsconfig.jest.json" ELSE "./tsconfig.json")
        /\ \E name \in FileNames : project.eslintTsconfigPath = Some("./" \o name)
        /\ ~JestEnabled =>
              /\ project.tsconfig # Unset
              /\ project.tsconfig[1].fileName = "tsconfig.json"
====
